---- MODULE Spec2Model ----
(***************************************************************************)
(* Model of api/src/context.rs (aptos-core): the Context that mediates     *)
(* between the REST handlers and the ledger store (DbReader), the Move     *)
(* resolver and the mempool channel.                                       *)
(*                                                                         *)
(* Four specifications share the module, one per component:                *)
(*   SpecBlock   get_block_info over a ledger that grows by commits        *)
(*   SpecTxn     get_transactions / get_transaction_by_version / by_hash / *)
(*               get_account_transactions over reader responses            *)
(*   SpecSubmit  submit_transaction / get_pending_transaction_by_hash      *)
(*               against the mempool channel                               *)
(*   SpecLedger  get_latest_ledger_info against a store that commits and   *)
(*               prunes between its two reads                              *)
(***************************************************************************)
EXTENDS Integers, Sequences, FiniteSets, TLC

VARIABLES
  ledger,        \* SpecBlock: the store, a sequence of blocks
  blockCall,     \* SpecBlock: the last get_block_info call and its result
  store,         \* SpecTxn: number of transactions the store holds
  txnCall,       \* SpecTxn: the last materializer call and its result
  mpChannel,     \* SpecSubmit: the mempool request channel (mpsc)
  mpHeld,        \* SpecSubmit: requests the mempool has received, unanswered
  oneshot,       \* SpecSubmit: one one-shot channel per call
  produced,      \* SpecSubmit: what the mempool produced for each request
  pc,            \* SpecSubmit: each caller's position
  submitResult,  \* SpecSubmit: what each call returned
  db,            \* SpecLedger: [first, latest] of the store
  infoCall       \* SpecLedger: position, locals and result of the call

blockVars  == <<ledger, blockCall>>
txnVars    == <<store, txnCall>>
submitVars == <<mpChannel, mpHeld, oneshot, produced, pc, submitResult>>
ledgerVars == <<db, infoCall>>
vars == <<ledger, blockCall, store, txnCall, mpChannel, mpHeld, oneshot,
          produced, pc, submitResult, db, infoCall>>

\* Option<T>
None == [some |-> FALSE]
Some(x) == [some |-> TRUE, value |-> x]

Min(a, b) == IF a <= b THEN a ELSE b

(***************************************************************************)
(* Integer helpers of the source.                                          *)
(***************************************************************************)

\* u64::saturating_sub
saturating_sub(a, b) == IF a >= b THEN a - b ELSE 0

\* u64::saturating_add; the versions of the model stay far below 2^64, so the
\* upper saturation point is never reached.
saturating_add(a, b) == a + b

\* width of the num_transactions field (u16)
U16Width == 65536

\* `as u16`: a truncating cast
as_u16(n) == n % U16Width

\* a cast that saturates at u16::MAX instead (not what the source does)
as_u16_saturating(n) == Min(n, U16Width - 1)

\* num_transactions as both return sites compute it
num_transactions(start, end) ==
  as_u16(saturating_add(saturating_sub(end, start), 1))

(***************************************************************************)
(* The ledger of SpecBlock.  The store is a flat sequence of versions; the *)
(* model keeps it as a sequence of blocks, each the boundary transaction   *)
(* followed by size-1 further transactions, so that a block of 65536       *)
(* transactions is one record.  `layout` is the field layout of            *)
(* 0x1::block::BlockMetadata published in the state after the block's last *)
(* version (a later transaction of the block may republish the module).    *)
(***************************************************************************)

CORE_CODE_ADDRESS == "0x1"
BlockMetadataTag == "block::BlockMetadata"
HashZero == 0

\* struct BlockMetadataState { epoch_internal, height }
LayoutV1 == <<"epoch_internal", "height">>
\* the same module republished with its fields in the other order
LayoutV2 == <<"height", "epoch_internal">>
Layouts == {LayoutV1, LayoutV2}

\* what self.move_resolver() gives: Ok(resolver over a state) or Err
Unavailable == [available |-> FALSE]
Resolver(layout) == [available |-> TRUE, layout |-> layout]

Write(key, address, typ, op, value) ==
  [key |-> key, address |-> address, typ |-> typ, op |-> op, value |-> value]

\* write-sets a boundary transaction can carry
WsHeight5  == << Write("resource", CORE_CODE_ADDRESS, "timestamp::Timer", "value", <<9>>),
                 Write("resource", CORE_CODE_ADDRESS, BlockMetadataTag, "value", <<3, 5>>) >>
WsOtherAddr == << Write("resource", "0xA", BlockMetadataTag, "value", <<1, 9>>),
                  Write("resource", CORE_CODE_ADDRESS, BlockMetadataTag, "value", <<3, 6>>) >>
WsDeletion == << Write("resource", CORE_CODE_ADDRESS, BlockMetadataTag, "deletion", <<>>) >>
WsUndecodable == << Write("code", CORE_CODE_ADDRESS, "block", "value", <<1>>),
                    Write("resource", CORE_CODE_ADDRESS, BlockMetadataTag, "value", <<4>>) >>
WriteSets == {WsHeight5, WsOtherAddr, WsDeletion, WsUndecodable}

\* bounds of the ledgers explored
MaxBlocks == 3
BlockSizes == {1, U16Width}
Timestamps == {0, 7}
BlockIds == {17}

GenesisTxn == [kind |-> "genesis", changes |-> WsHeight5]

BlockMetadataTxns ==
  [kind : {"block_metadata"}, timestamp : Timestamps, id : BlockIds, changes : WriteSets]

\* a user transaction: never a boundary in a well-formed ledger
UserTxn == [kind |-> "user", changes |-> << >>]

RECURSIVE StartOf(_, _)
\* first version of block b of ledger L (versions start at 0)
StartOf(L, b) == IF b = 1 THEN 0 ELSE StartOf(L, b - 1) + L[b - 1].size

LatestVersion(L) == StartOf(L, Len(L) + 1) - 1

BlockOf(L, v) == CHOOSE b \in 1..Len(L) : StartOf(L, b) <= v /\ v < StartOf(L, b + 1)

\* DbReader::get_block_boundaries(version, ledger_version)
get_block_boundaries(L, version, ledger_version) ==
  IF version > ledger_version \/ ledger_version > LatestVersion(L)
  THEN [ok |-> FALSE]
  ELSE LET b == BlockOf(L, version)
       IN [ok |-> TRUE, start |-> StartOf(L, b),
           end |-> Min(StartOf(L, b + 1) - 1, ledger_version)]

\* DbReader::get_transaction_by_version(start, ledger_version, _)
db_get_transaction_by_version(L, version, ledger_version) ==
  LET b == BlockOf(L, version)
  IN IF StartOf(L, b) = version THEN L[b].txn ELSE UserTxn

\* the layout of 0x1::block::BlockMetadata in the state at `version`: a block's
\* republished layout takes effect at the block's last version
LayoutAt(L, version) ==
  LET b == BlockOf(L, version)
  IN IF version = StartOf(L, b + 1) - 1 THEN L[b].layout
     ELSE IF b = 1 THEN LayoutV1 ELSE L[b - 1].layout

\* Context::move_resolver: latest_state_checkpoint_view().into_move_resolver()
move_resolver(L) == Resolver(LayoutAt(L, LatestVersion(L)))

\* converter.try_into_resource(&typ, value): the bytes decode field by field
\* against the layout the resolver holds; None when they do not fit it
try_into_resource(resolver, value) ==
  LET layout == resolver.layout
  IN IF Len(value) = Len(layout)
     THEN Some([f \in {layout[i] : i \in 1..Len(layout)} |->
                  value[CHOOSE i \in 1..Len(layout) : layout[i] = f]])
     ELSE None

\* the closure of find_map applied to one (key, op) of txn.changes
block_height_of_write(w, resolver) ==
  IF w.key = "resource"
     /\ w.address = CORE_CODE_ADDRESS /\ w.typ = BlockMetadataTag
     /\ w.op = "value"
  THEN LET resource == try_into_resource(resolver, w.value)
       IN IF resource.some /\ "height" \in DOMAIN resource.value
          THEN Some(resource.value["height"]) ELSE None
  ELSE None

RECURSIVE find_map_height(_, _)
\* txn.changes.iter().find_map(..): the first write the closure maps to Some
find_map_height(changes, resolver) ==
  IF changes = <<>> THEN None
  ELSE LET h == block_height_of_write(Head(changes), resolver)
       IN IF h.some THEN h ELSE find_map_height(Tail(changes), resolver)

BlockInfo(height, start, end, hash, timestamp) ==
  [ok |-> TRUE, block_height |-> height, start_version |-> start,
   end_version |-> end, block_hash |-> hash, block_timestamp |-> timestamp,
   num_transactions |-> num_transactions(start, end)]

Err(msg) == [ok |-> FALSE, error |-> msg]

\* get_block_info from the point where the boundary transaction is known
block_info_of_boundary(txn, start, end, resolver) ==
  IF txn.kind \notin {"genesis", "block_metadata"}
  THEN Err("Failed to retrieve BlockMetadata or Genesis transaction")
  ELSE LET timestamp  == IF txn.kind = "genesis" THEN 0 ELSE txn.timestamp
           block_hash == IF txn.kind = "genesis" THEN HashZero ELSE txn.id
       IN IF timestamp = 0
          THEN BlockInfo(0, start, end, block_hash, timestamp)
          ELSE IF ~resolver.available
          THEN Err("Failed to read latest state checkpoint")
          ELSE LET maybe_block_height == find_map_height(txn.changes, resolver)
               IN IF maybe_block_height.some
                  THEN BlockInfo(maybe_block_height.value, start, end, block_hash, timestamp)
                  ELSE Err("Unable to find block height in metadata transaction")

\* the same with the resolver obtained before the boundary transaction is
\* looked at (not what the source does)
get_block_info_resolver_first(L, version, ledger_version, resolver) ==
  LET bounds == get_block_boundaries(L, version, ledger_version)
  IN IF ~bounds.ok THEN Err("Failed to find block boundaries")
     ELSE IF ~resolver.available THEN Err("Failed to read latest state checkpoint")
     ELSE block_info_of_boundary(
            db_get_transaction_by_version(L, bounds.start, ledger_version),
            bounds.start, bounds.end, resolver)

\* Context::get_block_info(version, ledger_version); `resolver` is what
\* self.move_resolver() gives when it is reached: a layout, or Unavailable
get_block_info(L, version, ledger_version, resolver) ==
  LET bounds == get_block_boundaries(L, version, ledger_version)
  IN IF ~bounds.ok THEN Err("Failed to find block boundaries")
     ELSE block_info_of_boundary(
            db_get_transaction_by_version(L, bounds.start, ledger_version),
            bounds.start, bounds.end, resolver)

(***************************************************************************)
(* SpecBlock: the ledger grows by whole blocks; get_block_info is called   *)
(* with any version pair at a block's edges, with the latest state         *)
(* checkpoint readable or not.                                             *)
(***************************************************************************)

\* the genesis transaction is version 0 alone
GenesisBlocks == [txn : {GenesisTxn}, size : {1}, layout : {LayoutV1}]

Blocks == [txn : BlockMetadataTxns, size : BlockSizes, layout : Layouts]

\* the versions a call is tried at: the first, second and last of each block
QueryVersions(L) ==
  UNION { {StartOf(L, b), Min(StartOf(L, b) + 1, StartOf(L, b + 1) - 1),
           StartOf(L, b + 1) - 1} : b \in 1..Len(L) }

\* the ledger versions a call at `version` is tried with: the version before
\* it (no block is found), the version itself and the latest version
QueryLedgerVersions(L, version) ==
  {version, LatestVersion(L)} \cup (IF version > 0 THEN {version - 1} ELSE {})

\* no call made, or its result taken
NoBlockCall == [op |-> "none", version |-> 0, ledger_version |-> 0,
                resolver_ok |-> TRUE, result |-> Err("no call")]

\* the store commits the genesis block
CommitGenesis ==
  /\ blockCall = NoBlockCall
  /\ ledger = <<>>
  /\ \E block \in GenesisBlocks : ledger' = <<block>>
  /\ UNCHANGED blockCall

\* the store commits one more block; a block of one transaction is only the
\* block-metadata transaction, which republishes nothing
Commit ==
  /\ blockCall = NoBlockCall
  /\ ledger # <<>>
  /\ Len(ledger) < MaxBlocks
  /\ \E block \in Blocks :
       /\ block.size = 1 => block.layout = ledger[Len(ledger)].layout
       /\ ledger' = Append(ledger, block)
  /\ UNCHANGED blockCall

\* a handler calls get_block_info(version, ledger_version)
GetBlockInfo ==
  /\ blockCall = NoBlockCall
  /\ \E version \in QueryVersions(ledger), resolver_ok \in BOOLEAN :
       \E ledger_version \in QueryLedgerVersions(ledger, version) :
         blockCall' =
           [op |-> "get_block_info", version |-> version,
            ledger_version |-> ledger_version, resolver_ok |-> resolver_ok,
            result |-> get_block_info(ledger, version, ledger_version,
                         IF resolver_ok THEN move_resolver(ledger) ELSE Unavailable)]
  /\ UNCHANGED ledger

\* the handler takes the result
ReturnBlockInfo ==
  /\ blockCall # NoBlockCall
  /\ blockCall' = NoBlockCall
  /\ UNCHANGED ledger

InitBlock ==
  /\ ledger = <<>>
  /\ blockCall = NoBlockCall

NextBlock ==
  \/ CommitGenesis /\ UNCHANGED <<txnVars, submitVars, ledgerVars>>
  \/ Commit /\ UNCHANGED <<txnVars, submitVars, ledgerVars>>
  \/ GetBlockInfo /\ UNCHANGED <<txnVars, submitVars, ledgerVars>>
  \/ ReturnBlockInfo /\ UNCHANGED <<txnVars, submitVars, ledgerVars>>

(***************************************************************************)
(* SpecTxn: the transaction materializer.  The store holds the versions    *)
(* 0..store-1; version v carries transaction v, whose hash is v and whose  *)
(* sender (for v >= 1) is the one account, with sequence number v-1.       *)
(* Every reader answer is an input of the call: the store's own answer or  *)
(* a faulty one.                                                           *)
(***************************************************************************)

MaxStore == 3
MaxLimit == 2

Versions == 0..(MaxStore - 1)

RECURSIVE SeqFromTo(_, _)
\* <<a, a+1, .., b>>
SeqFromTo(a, b) == IF a > b THEN <<>> ELSE <<a>> \o SeqFromTo(a + 1, b)

Prefix(q, n) == SubSeq(q, 1, Min(n, Len(q)))

\* number of transactions the store holds from start_version up to
\* ledger_version
Available(n, start_version, ledger_version) ==
  saturating_sub(Min(ledger_version, n - 1) + 1, start_version)

\* the versions of the window the store holds for (start, limit, ledger_version)
Window(n, start_version, limit, ledger_version) ==
  SeqFromTo(start_version,
            start_version + Min(limit, Available(n, start_version, ledger_version)) - 1)

\* TransactionOutputListWithProof
OutputList(first, txns, infos) ==
  [ok |-> TRUE, first_transaction_output_version |-> first,
   transactions_and_outputs |-> txns, infos |-> infos]

DbErr == [ok |-> FALSE]

\* the answers DbReader::get_transaction_outputs(start, limit, ledger_version)
\* is tried with: the window with its first version (absent or present when
\* the window is empty), a window that starts one version late, one with a
\* transaction info or an output missing, and a read error
OutputAnswers(n, start_version, limit, ledger_version) ==
  LET w == Window(n, start_version, limit, ledger_version)
  IN {OutputList(f, t, i) :
        f \in {None, Some(start_version), Some(start_version + 1)},
        t \in {w, Prefix(w, Len(w) - 1)},
        i \in {w, Prefix(w, Len(w) - 1)}}
     \cup {DbErr}

\* the window is the store's: its lists are the store's transactions and
\* infos, and its first version is start_version (absent only when empty)
ConsistentWindow(data, n, start_version, limit, ledger_version) ==
  LET w == Window(n, start_version, limit, ledger_version)
  IN /\ data.ok
     /\ data.transactions_and_outputs = w
     /\ data.infos = w
     /\ \/ data.first_transaction_output_version = Some(start_version)
        \/ w = <<>> /\ data.first_transaction_output_version = None

\* reader faults of one call: versions whose accumulator root hash cannot be
\* read, versions whose outputs read fails, versions whose outputs read
\* gives an empty list, and a failing point read
NoFault == [hash_fail |-> {}, outputs_err |-> {}, outputs_empty |-> {}, read_err |-> FALSE]
Faults ==
  {NoFault, [NoFault EXCEPT !.read_err = TRUE]}
  \cup {[NoFault EXCEPT !.hash_fail = {v}] : v \in Versions}
  \cup {[NoFault EXCEPT !.outputs_err = {v}] : v \in Versions}
  \cup {[NoFault EXCEPT !.outputs_empty = {v}] : v \in Versions}

OkT(value) == [kind |-> "ok", value |-> value]
ErrT(msg) == [kind |-> "err", error |-> msg]
Panic == [kind |-> "panic"]

\* Context::get_accumulator_root_hash(version)
get_accumulator_root_hash(version, fault) ==
  IF version \in fault.hash_fail THEN ErrT("accumulator root hash")
  ELSE OkT(version)

\* TransactionOnChainData
OnChainData(version, txn, info, hash) ==
  [version |-> version, transaction |-> txn, info |-> info,
   accumulator_root_hash |-> hash]

RECURSIVE collect_ok_prefix(_)
\* a collect that stops at the first failure and keeps what it has (not what
\* the source does)
collect_ok_prefix(items) ==
  IF items = <<>> THEN OkT(<<>>)
  ELSE IF Head(items).kind # "ok" THEN OkT(<<>>)
  ELSE OkT(<<Head(items).value>> \o collect_ok_prefix(Tail(items)).value)

RECURSIVE collect(_)
\* .collect::<Result<Vec<_>>>() over a lazy map: the first item that fails
\* ends the iteration and is the result
collect(items) ==
  IF items = <<>> THEN OkT(<<>>)
  ELSE IF Head(items).kind # "ok" THEN Head(items)
  ELSE LET rest == collect(Tail(items))
       IN IF rest.kind # "ok" THEN rest
          ELSE OkT(<<Head(items).value>> \o rest.value)

\* Context::get_transactions(start_version, limit, ledger_version); `data` is
\* the reader's answer to get_transaction_outputs
get_transactions(start_version, limit, ledger_version, data, fault) ==
  IF ~data.ok THEN ErrT("get_transaction_outputs")
  ELSE IF ~data.first_transaction_output_version.some
  THEN ErrT("no start version from database")
  ELSE IF data.first_transaction_output_version.value # start_version
  THEN ErrT("invalid start version from database")
  ELSE LET infos == data.infos
           transactions_and_outputs == data.transactions_and_outputs
       IN IF Len(transactions_and_outputs) # Len(infos)
          THEN ErrT("invalid data size from database")
          ELSE collect(
                 [k \in 1..Min(Len(transactions_and_outputs), Len(infos)) |->
                    LET version == start_version + (k - 1)
                        h == get_accumulator_root_hash(version, fault)
                    IN IF h.kind = "ok"
                       THEN OkT(OnChainData(version, transactions_and_outputs[k],
                                            infos[k], h.value))
                       ELSE h])

\* DbReader::get_transaction_outputs(version, 1, version) as the conversion
\* reads it
outputs_of(version, fault) ==
  IF version \in fault.outputs_err THEN DbErr
  ELSE IF version \in fault.outputs_empty THEN OutputList(None, <<>>, <<>>)
  ELSE OutputList(Some(version), <<version>>, <<version>>)

\* Context::convert_into_transaction_on_chain_data(txn)
convert_into_transaction_on_chain_data(txn, fault) ==
  LET data == outputs_of(txn, fault)
  IN IF ~data.ok THEN ErrT("get_transaction_outputs")
     ELSE IF Len(data.transactions_and_outputs) = 0
     THEN Panic   \* .transactions_and_outputs[0]: index out of bounds
     ELSE LET h == get_accumulator_root_hash(txn, fault)
          IN IF h.kind = "ok"
             THEN OkT(OnChainData(txn, txn, data.transactions_and_outputs[1], h.value))
             ELSE h

\* Context::get_transaction_by_version(version, ledger_version)
get_transaction_by_version(n, version, ledger_version, fault) ==
  IF fault.read_err \/ version > ledger_version \/ version >= n
  THEN ErrT("get_transaction_by_version")
  ELSE convert_into_transaction_on_chain_data(version, fault)

\* Context::get_transaction_by_hash(hash, ledger_version)
get_transaction_by_hash(n, hash, ledger_version, fault) ==
  IF fault.read_err THEN ErrT("get_transaction_by_hash")
  ELSE IF hash > ledger_version \/ hash >= n THEN OkT(None)
  ELSE LET r == convert_into_transaction_on_chain_data(hash, fault)
       IN IF r.kind = "ok" THEN OkT(Some(r.value)) ELSE r

\* Context::get_account_transactions(address, start_seq_number, limit,
\* ledger_version)
get_account_transactions(n, start_seq_number, limit, ledger_version, fault) ==
  IF fault.read_err THEN ErrT("get_account_transactions")
  ELSE LET txns == Window(n, start_seq_number + 1, limit, ledger_version)
       IN collect([k \in 1..Len(txns) |->
                     convert_into_transaction_on_chain_data(txns[k], fault)])

\* no call made, or its result taken
NoTxnCall == [op |-> "none", start |-> 0, limit |-> 0, ledger_version |-> 0,
              data |-> DbErr, fault |-> NoFault, result |-> ErrT("no call")]

\* the store commits one more transaction
CommitTxn ==
  /\ txnCall = NoTxnCall
  /\ store < MaxStore
  /\ store' = store + 1
  /\ UNCHANGED txnCall

GetTransactions ==
  /\ txnCall = NoTxnCall
  /\ \E start_version \in Versions, limit \in 0..MaxLimit,
        ledger_version \in Versions, fault \in Faults :
       \E data \in OutputAnswers(store, start_version, limit, ledger_version) :
         txnCall' = [op |-> "get_transactions", start |-> start_version,
                     limit |-> limit, ledger_version |-> ledger_version,
                     data |-> data, fault |-> fault,
                     result |-> get_transactions(start_version, limit,
                                                 ledger_version, data, fault)]
  /\ UNCHANGED store

GetTransactionByVersion ==
  /\ txnCall = NoTxnCall
  /\ \E version \in Versions, ledger_version \in Versions, fault \in Faults :
       txnCall' = [op |-> "get_transaction_by_version", start |-> version,
                   limit |-> 1, ledger_version |-> ledger_version,
                   data |-> outputs_of(version, fault), fault |-> fault,
                   result |-> get_transaction_by_version(store, version,
                                                         ledger_version, fault)]
  /\ UNCHANGED store

GetTransactionByHash ==
  /\ txnCall = NoTxnCall
  /\ \E hash \in Versions, ledger_version \in Versions, fault \in Faults :
       txnCall' = [op |-> "get_transaction_by_hash", start |-> hash,
                   limit |-> 1, ledger_version |-> ledger_version,
                   data |-> outputs_of(hash, fault), fault |-> fault,
                   result |-> get_transaction_by_hash(store, hash,
                                                      ledger_version, fault)]
  /\ UNCHANGED store

GetAccountTransactions ==
  /\ txnCall = NoTxnCall
  /\ \E start_seq_number \in Versions, limit \in 0..MaxLimit,
        ledger_version \in Versions, fault \in Faults :
       txnCall' = [op |-> "get_account_transactions", start |-> start_seq_number,
                   limit |-> limit, ledger_version |-> ledger_version,
                   data |-> DbErr, fault |-> fault,
                   result |-> get_account_transactions(store, start_seq_number,
                                                       limit, ledger_version, fault)]
  /\ UNCHANGED store

\* the handler takes the result
ReturnTxn ==
  /\ txnCall # NoTxnCall
  /\ txnCall' = NoTxnCall
  /\ UNCHANGED store

InitTxn ==
  /\ store = 1
  /\ txnCall = NoTxnCall

NextTxn ==
  \/ CommitTxn /\ UNCHANGED <<blockVars, submitVars, ledgerVars>>
  \/ GetTransactions /\ UNCHANGED <<blockVars, submitVars, ledgerVars>>
  \/ GetTransactionByVersion /\ UNCHANGED <<blockVars, submitVars, ledgerVars>>
  \/ GetTransactionByHash /\ UNCHANGED <<blockVars, submitVars, ledgerVars>>
  \/ GetAccountTransactions /\ UNCHANGED <<blockVars, submitVars, ledgerVars>>
  \/ ReturnTxn /\ UNCHANGED <<blockVars, submitVars, ledgerVars>>

(***************************************************************************)
(* SpecSubmit: the submission bridge.  Caller c makes one call, for its    *)
(* own transaction c: submit_transaction or                                *)
(* get_pending_transaction_by_hash.  The mempool takes requests off the    *)
(* channel in send order and answers those it holds in any order, or drops *)
(* their one-shot senders, or shuts down.                                  *)
(***************************************************************************)

NumCallers == 2
Callers == 1..NumCallers

OkS(v) == [kind |-> "ok", value |-> v]
ErrS(e) == [kind |-> "err", error |-> e]

\* what the mempool can send on the one-shot sender of a SubmitTransaction:
\* Result<SubmissionStatus>
SubmitOutcomes == {OkS("Accepted"), OkS("Rejected"), ErrS("mempool")}
\* and of a GetTransactionByHash: Option<SignedTransaction>
LookupOutcomes == {Some("txn"), None}

EmptySlot == [state |-> "empty"]
Sent(v) == [state |-> "sent", value |-> v]
DroppedSlot == [state |-> "dropped"]
TakenSlot == [state |-> "taken"]

\* a single one-shot channel shared by every call (not what the source does)
req_sender_shared(c) == 1

\* let (req_sender, callback) = oneshot::channel(): each call opens its own
\* channel, and the request carries its sender
req_sender(c) == c

MempoolClientRequest(kind, c) == [kind |-> kind, txn |-> c, req_sender |-> req_sender(c)]

\* an await that turns a dropped sender into an acceptance (not what the
\* source does)
callback_await_default(slot, kind) ==
  IF slot.state = "sent"
  THEN (IF kind = "submit" THEN slot.value ELSE OkS(slot.value))
  ELSE OkS("Accepted")

\* callback.await? / callback.await.map_err(..): the value sent, or the
\* Canceled error of a sender dropped without sending
callback_await(slot, kind) ==
  IF slot.state = "sent"
  THEN (IF kind = "submit" THEN slot.value ELSE OkS(slot.value))
  ELSE ErrS("Canceled")

\* what a call of `op` returned
Returned(op, ret) == [op |-> op, ret |-> ret]

\* the first half of submit_transaction / get_pending_transaction_by_hash:
\* open the one-shot channel and send the request into the mempool channel
SendRequest(c, kind) ==
  /\ pc[c] = "idle"
  /\ IF mpChannel.open
     THEN /\ mpChannel' = [mpChannel EXCEPT !.queue =
                             Append(@, MempoolClientRequest(kind, c))]
          /\ pc' = [pc EXCEPT ![c] = kind]
          /\ UNCHANGED submitResult
     ELSE /\ pc' = [pc EXCEPT ![c] = "done"]
          /\ submitResult' = [submitResult EXCEPT ![c] = Returned(kind, ErrS("SendError"))]
          /\ UNCHANGED mpChannel
  /\ UNCHANGED <<mpHeld, oneshot, produced>>

\* the second half: the await on the call's own receiver completes
Complete(c) ==
  /\ pc[c] \in {"submit", "lookup"}
  /\ oneshot[c].state \in {"sent", "dropped"}
  /\ submitResult' = [submitResult EXCEPT ![c] =
                        Returned(pc[c], callback_await(oneshot[c], pc[c]))]
  /\ oneshot' = [oneshot EXCEPT ![c] =
                   IF @.state = "sent" THEN TakenSlot ELSE @]
  /\ pc' = [pc EXCEPT ![c] = "done"]
  /\ UNCHANGED <<mpChannel, mpHeld, produced>>

\* the mempool takes the next request off the channel
MempoolReceive ==
  /\ mpChannel.queue # <<>>
  /\ mpHeld' = mpHeld \cup {Head(mpChannel.queue)}
  /\ mpChannel' = [mpChannel EXCEPT !.queue = Tail(@)]
  /\ UNCHANGED <<oneshot, produced, pc, submitResult>>

\* the mempool answers a request it holds on the sender the request carries
MempoolRespond(r, outcome) ==
  /\ r \in mpHeld
  /\ oneshot[r.req_sender].state = "empty"
  /\ oneshot' = [oneshot EXCEPT ![r.req_sender] = Sent(outcome)]
  /\ produced' = [produced EXCEPT ![r.txn] = Some(outcome)]
  /\ mpHeld' = mpHeld \ {r}
  /\ UNCHANGED <<mpChannel, pc, submitResult>>

\* the mempool drops a request it holds without answering it
MempoolDrop(r) ==
  /\ r \in mpHeld
  /\ oneshot[r.req_sender].state = "empty"
  /\ oneshot' = [oneshot EXCEPT ![r.req_sender] = DroppedSlot]
  /\ mpHeld' = mpHeld \ {r}
  /\ UNCHANGED <<mpChannel, produced, pc, submitResult>>

\* the mempool drops its receiver: the channel closes and the requests still
\* queued are dropped with their senders
MempoolShutdown ==
  /\ mpChannel.open
  /\ mpChannel' = [open |-> FALSE, queue |-> <<>>]
  /\ oneshot' = [c \in Callers |->
                   IF /\ oneshot[c].state = "empty"
                      /\ \E k \in 1..Len(mpChannel.queue) :
                           mpChannel.queue[k].req_sender = c
                   THEN DroppedSlot ELSE oneshot[c]]
  /\ UNCHANGED <<mpHeld, produced, pc, submitResult>>

InitSubmit ==
  /\ mpChannel = [open |-> TRUE, queue |-> <<>>]
  /\ mpHeld = {}
  /\ oneshot = [c \in Callers |-> EmptySlot]
  /\ produced = [c \in Callers |-> None]
  /\ pc = [c \in Callers |-> "idle"]
  /\ submitResult = [c \in Callers |-> Returned("none", ErrS("not returned"))]

NextSubmit ==
  \/ \E c \in Callers : SendRequest(c, "submit") /\ UNCHANGED <<blockVars, txnVars, ledgerVars>>
  \/ \E c \in Callers : SendRequest(c, "lookup") /\ UNCHANGED <<blockVars, txnVars, ledgerVars>>
  \/ \E c \in Callers : Complete(c) /\ UNCHANGED <<blockVars, txnVars, ledgerVars>>
  \/ MempoolReceive /\ UNCHANGED <<blockVars, txnVars, ledgerVars>>
  \/ \E r \in mpHeld :
       \E outcome \in (IF r.kind = "submit" THEN SubmitOutcomes ELSE LookupOutcomes) :
         MempoolRespond(r, outcome) /\ UNCHANGED <<blockVars, txnVars, ledgerVars>>
  \/ \E r \in mpHeld : MempoolDrop(r) /\ UNCHANGED <<blockVars, txnVars, ledgerVars>>
  \/ MempoolShutdown /\ UNCHANGED <<blockVars, txnVars, ledgerVars>>

(***************************************************************************)
(* SpecLedger: get_latest_ledger_info reads the oldest retained version,   *)
(* then the latest ledger info; the store commits and prunes in between.   *)
(***************************************************************************)

MaxLedgerVersion == 4

\* LedgerInfo::new(chain_id, latest ledger info, oldest_version)
LedgerInfo(latest, oldest_version) ==
  [kind |-> "ok", ledger_version |-> latest, oldest_ledger_version |-> oldest_version]

\* the store commits a transaction (the first one makes version 0)
DbCommit ==
  /\ db.latest < MaxLedgerVersion
  /\ db' = IF db.first.some THEN [db EXCEPT !.latest = @ + 1]
           ELSE [first |-> Some(0), latest |-> 0]
  /\ UNCHANGED infoCall

\* the pruner drops the oldest retained version, never the latest
DbPrune ==
  /\ db.first.some
  /\ db.first.value < db.latest
  /\ db' = [db EXCEPT !.first = Some(@.value + 1)]
  /\ UNCHANGED infoCall

InfoDone(first, result) == [pc |-> "done", first |-> first, result |-> result]

\* the reads in the other order: latest ledger info, then the oldest version
\* (not what the source does)
get_latest_ledger_info_latest_first(variant, read_ok) ==
  \/ /\ infoCall.pc = "idle"
     /\ infoCall' =
          IF ~read_ok THEN InfoDone(None, ErrS("ReadFromStorageError"))
          ELSE [pc |-> "have_oldest", first |-> Some(db.latest),
                result |-> infoCall.result]
     /\ UNCHANGED db
  \/ /\ infoCall.pc = "have_oldest"
     /\ infoCall' =
          IF ~read_ok THEN InfoDone(None, ErrS("ReadFromStorageError"))
          ELSE IF ~db.first.some
          THEN InfoDone(None, ErrS("Failed to retrieve oldest version"))
          ELSE InfoDone(db.first, LedgerInfo(infoCall.first.value, db.first.value))
     /\ UNCHANGED db

\* Context::get_latest_ledger_info ("warp") and get_latest_ledger_info_poem
\* ("poem"): self.db.get_first_txn_version() is one step of the call,
\* get_latest_ledger_info_with_signatures() the next; infoCall.first is what
\* the first read returned
get_latest_ledger_info(variant, read_ok) ==
  \/ /\ infoCall.pc = "idle"
     /\ infoCall' =
          IF ~read_ok THEN InfoDone(None, ErrS("ReadFromStorageError"))
          ELSE IF ~db.first.some
          THEN InfoDone(None, ErrS(IF variant = "warp"
                                   THEN "Failed to retrieve oldest version"
                                   ELSE "Failed to retrieve latest ledger info"))
          ELSE [pc |-> "have_oldest", first |-> db.first, result |-> infoCall.result]
     /\ UNCHANGED db
  \/ /\ infoCall.pc = "have_oldest"
     /\ infoCall' =
          IF ~read_ok THEN InfoDone(infoCall.first, ErrS("ReadFromStorageError"))
          ELSE InfoDone(infoCall.first, LedgerInfo(db.latest, infoCall.first.value))
     /\ UNCHANGED db

\* no call made, or its result taken
NoInfoCall == [pc |-> "idle", first |-> None, result |-> ErrS("no call")]

\* the caller takes the result; the next call starts
Return ==
  /\ infoCall.pc = "done"
  /\ infoCall' = NoInfoCall
  /\ UNCHANGED db

InitLedger ==
  /\ db = [first |-> None, latest |-> 0]
  /\ infoCall = NoInfoCall

NextLedger ==
  \/ DbCommit /\ UNCHANGED <<blockVars, txnVars, submitVars>>
  \/ DbPrune /\ UNCHANGED <<blockVars, txnVars, submitVars>>
  \/ \E variant \in {"warp", "poem"}, read_ok \in BOOLEAN :
       get_latest_ledger_info(variant, read_ok)
         /\ UNCHANGED <<blockVars, txnVars, submitVars>>
  \/ Return /\ UNCHANGED <<blockVars, txnVars, submitVars>>

(***************************************************************************)
(* The specifications.                                                     *)
(***************************************************************************)

Init == InitBlock /\ InitTxn /\ InitSubmit /\ InitLedger

SpecBlock  == Init /\ [][NextBlock]_vars
SpecTxn    == Init /\ [][NextTxn]_vars
SpecSubmit == Init /\ [][NextSubmit]_vars
SpecLedger == Init /\ [][NextLedger]_vars

(***************************************************************************)
(* Claims about get_block_info (SpecBlock).                                *)
(***************************************************************************)

\* the call recorded in blockCall found its block
CallBounds == get_block_boundaries(ledger, blockCall.version, blockCall.ledger_version)
\* and this is the block's boundary transaction
CallBoundary ==
  db_get_transaction_by_version(ledger, CallBounds.start, blockCall.ledger_version)

\* the heights the write-set writes: the `height` field of each value written
\* to the resource 0x1::block::BlockMetadata that decodes against the layout
WrittenHeights(changes, layout) ==
  { changes[i].value[k] :
      <<i, k>> \in { p \in (1..Len(changes)) \X (1..Len(layout)) :
                       /\ changes[p[1]].key = "resource"
                       /\ changes[p[1]].address = CORE_CODE_ADDRESS
                       /\ changes[p[1]].typ = BlockMetadataTag
                       /\ changes[p[1]].op = "value"
                       /\ Len(changes[p[1]].value) = Len(layout)
                       /\ layout[p[2]] = "height" } }

\* C1: when the boundary transaction is a block-metadata transaction (and the
\* reads and the resolver succeed), get_block_info returns the timestamp and
\* the hash of that transaction and the height its write-set writes to
\* 0x1::block::BlockMetadata, and returns the block-height error when the
\* write-set writes no decodable height; for every timestamp, 0 included.
C1_BlockInfoFromMetadata ==
  (/\ blockCall.op = "get_block_info"
   /\ blockCall.resolver_ok
   /\ CallBounds.ok
   /\ CallBoundary.kind = "block_metadata")
  => LET heights == WrittenHeights(CallBoundary.changes, move_resolver(ledger).layout)
         r == blockCall.result
     IN IF heights = {}
        THEN r = Err("Unable to find block height in metadata transaction")
        ELSE /\ r.ok
             /\ r.block_timestamp = CallBoundary.timestamp
             /\ r.block_hash = CallBoundary.id
             /\ r.block_height \in heights

\* C2: when the boundary transaction is the genesis transaction, get_block_info
\* returns height 0, timestamp 0 and the zero hash, and the result is the same
\* for every resolver and when no resolver can be built.
C2_GenesisIgnoresResolver ==
  (/\ blockCall.op = "get_block_info"
   /\ CallBounds.ok
   /\ CallBoundary.kind = "genesis")
  => /\ blockCall.result.ok
     /\ blockCall.result.block_height = 0
     /\ blockCall.result.block_timestamp = 0
     /\ blockCall.result.block_hash = HashZero
     /\ \A r \in {Unavailable} \cup {Resolver(l) : l \in Layouts} :
          get_block_info(ledger, blockCall.version, blockCall.ledger_version, r)
            = blockCall.result

\* a genesis call answered although the latest state checkpoint was unreadable
\* and a later block had republished the block module
C2_Witness ==
  /\ blockCall.op = "get_block_info"
  /\ CallBounds.ok
  /\ CallBoundary.kind = "genesis"
  /\ ~blockCall.resolver_ok
  /\ move_resolver(ledger).layout = LayoutV2
  /\ blockCall.result.ok

\* C3: num_transactions is end - start + 1, saturated at the maximum of its
\* 16-bit field when it does not fit.
C3_NumTransactionsSaturates ==
  (blockCall.op = "get_block_info" /\ blockCall.result.ok)
  => blockCall.result.num_transactions =
       as_u16_saturating(blockCall.result.end_version
                           - blockCall.result.start_version + 1)

\* C10: for fixed (version, ledger_version) the BlockInfo does not change when
\* the store commits above ledger_version.
C10_LedgerVersionScoped ==
  [][\A version \in QueryVersions(ledger) :
       \A ledger_version \in QueryLedgerVersions(ledger, version) :
         get_block_info(ledger', version, ledger_version, move_resolver(ledger'))
           = get_block_info(ledger, version, ledger_version, move_resolver(ledger))]_vars

(***************************************************************************)
(* Claims about the transaction materializer (SpecTxn).                    *)
(***************************************************************************)

\* C4: when the reader returns a consistent window (and every read of the
\* call succeeds), get_transactions returns exactly min(limit, available)
\* records, the i-th with version start_version + i; an empty list when limit
\* or available is 0.
C4_RangeConsistency ==
  (/\ txnCall.op = "get_transactions"
   /\ txnCall.fault = NoFault
   /\ ConsistentWindow(txnCall.data, store, txnCall.start, txnCall.limit,
                       txnCall.ledger_version))
  => /\ txnCall.result.kind = "ok"
     /\ Len(txnCall.result.value) =
          Min(txnCall.limit, Available(store, txnCall.start, txnCall.ledger_version))
     /\ \A k \in 1..Len(txnCall.result.value) :
          txnCall.result.value[k].version = txnCall.start + (k - 1)

\* C5: get_transactions returns an error and no records when the reader's
\* first version is not the requested start version, when the outputs and the
\* transaction infos differ in number, or when the accumulator root hash of a
\* version of the window cannot be read; a list it does return is never
\* shorter than the reader's.
C5_NoPartialResult ==
  txnCall.op = "get_transactions"
  => /\ (\/ ~txnCall.data.ok
         \/ txnCall.data.first_transaction_output_version # Some(txnCall.start)
         \/ Len(txnCall.data.transactions_and_outputs) # Len(txnCall.data.infos)
         \/ \E k \in 1..Len(txnCall.data.transactions_and_outputs) :
              txnCall.start + (k - 1) \in txnCall.fault.hash_fail)
        => txnCall.result.kind = "err"
     /\ txnCall.result.kind = "ok"
        => Len(txnCall.result.value) = Len(txnCall.data.transactions_and_outputs)

\* a window of two whose second root hash could not be read, after the first
\* record was built: the call returned the error
C5_Witness ==
  /\ txnCall.op = "get_transactions"
  /\ txnCall.data.ok
  /\ txnCall.data.first_transaction_output_version = Some(txnCall.start)
  /\ Len(txnCall.data.transactions_and_outputs) = 2
  /\ Len(txnCall.data.infos) = 2
  /\ txnCall.fault.hash_fail = {txnCall.start + 1}
  /\ txnCall.result.kind = "err"

\* C7: no read operation panics, whatever the reader answers: each ends with
\* a result or an error value.
C7_NoPanic == txnCall.result.kind \in {"ok", "err"}

(***************************************************************************)
(* Claims about the submission bridge (SpecSubmit).                        *)
(***************************************************************************)

\* what caller c's call returns when it returns the mempool's answer to its
\* own request
OwnOutcome(c) ==
  IF submitResult[c].op = "submit" THEN produced[c].value
  ELSE OkS(produced[c].value)

ChannelErrors == {ErrS("SendError"), ErrS("Canceled")}

\* C6: with concurrent callers and answers in any order, a call that returns
\* an answer returns the one the mempool produced for its own transaction,
\* taken from its own one-shot channel (so it cannot be received again), and
\* a call whose answer has been sent can complete whatever the other calls'
\* channels hold.
C6_SubmissionCorrelated ==
  \A c \in Callers :
    /\ (pc[c] = "done" /\ submitResult[c].ret \notin ChannelErrors)
       => /\ produced[c].some
          /\ submitResult[c].ret = OwnOutcome(c)
          /\ oneshot[c] = TakenSlot
    /\ (pc[c] \in {"submit", "lookup"} /\ oneshot[c].state = "sent")
       => ENABLED Complete(c)

\* caller 2's submission was rejected and returned while caller 1's request,
\* received by the mempool, is still unanswered
C6_Witness ==
  /\ pc[2] = "done"
  /\ submitResult[2] = Returned("submit", OkS("Rejected"))
  /\ pc[1] = "submit"
  /\ oneshot[1] = EmptySlot
  /\ \E r \in mpHeld : r.txn = 1

\* C9 as stated: a call completes only with the send error or with the value
\* the mempool sent on its one-shot channel.
C9_TwoWaysOnly ==
  \A c \in Callers :
    pc[c] = "done"
    => \/ submitResult[c].ret = ErrS("SendError")
       \/ produced[c].some /\ submitResult[c].ret = OwnOutcome(c)

\* C9 amended: a call completes with the send error (the channel is closed),
\* with the value the mempool sent on its one-shot channel, or with the
\* Canceled error when the mempool dropped the one-shot sender unanswered;
\* while the sender is alive and has sent nothing the call cannot complete.
C9_CompletionWays ==
  \A c \in Callers :
    /\ pc[c] = "done"
       => \/ submitResult[c].ret = ErrS("SendError") /\ ~mpChannel.open
          \/ /\ produced[c].some
             /\ submitResult[c].ret = OwnOutcome(c)
             /\ oneshot[c] = TakenSlot
          \/ /\ submitResult[c].ret = ErrS("Canceled")
             /\ oneshot[c] = DroppedSlot
             /\ ~produced[c].some
    /\ (pc[c] \in {"submit", "lookup"} /\ oneshot[c] = EmptySlot)
       => ~ENABLED Complete(c)

\* a submission that returned Canceled: its sender was dropped unanswered
C9_Witness ==
  \E c \in Callers :
    /\ pc[c] = "done"
    /\ submitResult[c] = Returned("submit", ErrS("Canceled"))

(***************************************************************************)
(* Claims about get_latest_ledger_info (SpecLedger).                       *)
(***************************************************************************)

\* C8: every LedgerInfo returned has oldest_ledger_version <= ledger_version,
\* with commits and prunes between the two reads; and a call whose first read
\* found no first version returns an error.
C8_OldestNotAboveLatest ==
  /\ infoCall.result.kind = "ok"
     => infoCall.result.oldest_ledger_version <= infoCall.result.ledger_version
  /\ (infoCall.pc = "done" /\ ~infoCall.first.some)
     => infoCall.result.kind = "err"

\* a snapshot returned by a call around which the store both pruned and
\* committed: it is older than the store on both ends
C8_Witness ==
  /\ infoCall.pc = "done"
  /\ infoCall.result.kind = "ok"
  /\ infoCall.result.oldest_ledger_version < db.first.value
  /\ infoCall.result.ledger_version < db.latest

====
